---- MODULE Spec2Model ----
(***************************************************************************)
(* A model of the steganographic codec of steg-ui                          *)
(* (src/lib/steganography.ts, with its DCT helpers in src/unnamed/part_000 *)
(* and the histogram helpers in src/unnamed/part_001), and of the decode   *)
(* tab that calls it (src/app/page.tsx).                                   *)
(*                                                                         *)
(* A pixel buffer is a sequence of samples 0..255, four per pixel          *)
(* (R,G,B,A), row-major; the source's zero-based index i is the sequence   *)
(* index i+1.  Text is a sequence of character codes, a bit string is a    *)
(* sequence of 0/1.                                                        *)
(***************************************************************************)
EXTENDS Integers, Sequences, FiniteSets, TLC

VARIABLES
    width,        \* canvas.width
    height,       \* canvas.height
    orig,         \* the samples of the image as loaded (imageData before encode)
    data,         \* imageData.data, mutated in place by encode
    message,      \* the payload given to encodeMessage
    technique,    \* the selector given to encodeMessage
    decTechnique, \* the selector given to decodeMessage
    encState,     \* "none" | "ok" | "CapacityExceeded" | "UnknownTechnique"
    embedded,     \* bitIndex at the end of the technique's encode
    decState,     \* "none" | "ok" | "SignatureMismatch" | "UnknownTechnique"
    binary,       \* the bit string the technique's extract returned
    decoded,      \* the text processDecoding returned
    inBlock,      \* the 8x8 block given to applyDCT alone
    freqBlock,    \* the coefficients applyDCT returned for it, or encode left of it
    outBlock,     \* the block applyInverseDCT returned for them
    image,        \* DecodeTab: the selected file (a file of TabFiles), 0 for null
    imagePreview, \* DecodeTab: the file whose data URL is previewed, 0 for null
    decodedMessage, \* DecodeTab: the text displayed, <<>> for null
    isDecoding,   \* DecodeTab: the decode button shows "Decoding..."
    error,        \* DecodeTab: the alert displayed, "" for null
    pendingDecode,  \* the decodeMessage call in flight: <<stage, file>>, or <<>>
    previewReaders  \* the FileReaders of handleImageChange in flight: their files

vars == <<width, height, orig, data, message, technique, decTechnique,
          encState, embedded, decState, binary, decoded,
          inBlock, freqBlock, outBlock,
          image, imagePreview, decodedMessage, isDecoding, error,
          pendingDecode, previewReaders>>

\* the variables of a call of applyDCT and applyInverseDCT alone
blockVars == <<inBlock, freqBlock, outBlock>>

\* no such call is made
NoBlock == inBlock = <<>> /\ freqBlock = <<>> /\ outBlock = <<>>

\* the state of the decode tab and of the calls it has in flight
tabVars == <<image, imagePreview, decodedMessage, isDecoding, error,
             pendingDecode, previewReaders>>

\* the decode tab as mounted: lines 192-197 of page.tsx
NoTab ==
    /\ image = 0
    /\ imagePreview = 0
    /\ decodedMessage = <<>>
    /\ isDecoding = FALSE
    /\ error = ""
    /\ pendingDecode = <<>>
    /\ previewReaders = <<>>

----------------------------------------------------------------------------
(* Bounds of the model *)

\* payloads are all texts over Alphabet up to this length, plus NamedPayloads
MaxPayloadLen == 2
\* the texts given to textToBinary alone are all texts over CodecAlphabet up
\* to this length
MaxTextLen == 3
\* the blocks given to applyDCT alone include noise of the seeds up to this
MaxBlockSeed == 40
\* a tile's entries are offsets 0..MaxDelta from the image's base value
MaxDelta == 2
\* the decode tab has at most this many preview FileReaders in flight
MaxPreviewReaders == 2

----------------------------------------------------------------------------
(* Helpers *)

Min(a, b) == IF a < b THEN a ELSE b
Max(a, b) == IF a > b THEN a ELSE b

RECURSIVE Pow2(_)
Pow2(k) == IF k = 0 THEN 1 ELSE 2 * Pow2(k - 1)

\* bit k of the sample x:  (x >> k) & 1
Bit(x, k) == (x \div Pow2(k)) % 2

\* (x & ~(1 << k)) | (b << k)
SetBit(x, k, b) == x - Bit(x, k) * Pow2(k) + b * Pow2(k)

\* data[i] of the source (zero-based)
At(d, i) == d[i + 1]

----------------------------------------------------------------------------
(* BitCodec: textToBinary, binaryToText, the terminator *)

\* "§END§" as character codes
Terminator == <<167, 69, 78, 68, 167>>

RECURSIVE ToBinaryDigits(_)
\* charCode.toString(2): the binary digits of n, most significant first
ToBinaryDigits(n) ==
    IF n < 2 THEN <<n>> ELSE Append(ToBinaryDigits(n \div 2), n % 2)

\* .padStart(8, "0"): pads to 8 digits, never truncates
PadStart8(s) ==
    IF Len(s) >= 8 THEN s ELSE [i \in 1..(8 - Len(s)) |-> 0] \o s

RECURSIVE textToBinary(_)
\* the digits of every character in order; the text is taken by halves so
\* that a long text nests no deeper than the logarithm of its length
textToBinary(text) ==
    IF text = <<>> THEN <<>>
    ELSE IF Len(text) = 1 THEN PadStart8(ToBinaryDigits(text[1]))
    ELSE LET mid == Len(text) \div 2
         IN  textToBinary(SubSeq(text, 1, mid))
                \o textToBinary(SubSeq(text, mid + 1, Len(text)))

\* Number.parseInt(byte, 2) of the 8 bits of b that start at offset i (zero-based)
ParseByte(b, i) ==
    128 * b[i + 1] + 64 * b[i + 2] + 32 * b[i + 3] + 16 * b[i + 4]
    + 8 * b[i + 5] + 4 * b[i + 6] + 2 * b[i + 7] + b[i + 8]

\* every complete group of 8 bits becomes one character; an incomplete
\* trailing group is dropped
binaryToText(b) ==
    [k \in 1..(Len(b) \div 8) |-> ParseByte(b, 8 * (k - 1))]

\* whether pat occurs in text at zero-based index i
OccursAt(text, pat, i) ==
    /\ i + Len(pat) <= Len(text)
    /\ \A j \in 1..Len(pat) : text[i + j] = pat[j]

\* text.indexOf(pat): the first index, or -1
IndexOf(text, pat) ==
    LET hits == {i \in 0..Len(text) : OccursAt(text, pat, i)}
    IN  IF hits = {} THEN -1
        ELSE CHOOSE i \in hits : \A j \in hits : i <= j

\* a faulty variant of the truncation: the text up to the last terminator
StripAtLastTerminator(fullMessage) ==
    LET hits == {i \in 0..Len(fullMessage) : OccursAt(fullMessage, Terminator, i)}
    IN  IF hits = {} THEN fullMessage
        ELSE SubSeq(fullMessage, 1, CHOOSE i \in hits : \A j \in hits : j <= i)

\* lines 200-209 of processDecoding: the text up to the first terminator
StripTerminator(fullMessage) ==
    LET terminatorIndex == IndexOf(fullMessage, Terminator)
    IN  IF terminatorIndex = -1 THEN fullMessage
        ELSE SubSeq(fullMessage, 1, terminatorIndex)

----------------------------------------------------------------------------
(* BitPlaneLSB *)

\* a faulty variant of applyLSB: the message bit is or-ed into the sample
\* without clearing bit 0 first
applyLSBWithoutClear(d, binaryMessage) ==
    [k \in 1..Len(d) |->
        LET i == k - 1
            j == i % 4
            bitIndex == 3 * (i \div 4) + j
        IN  IF j < 3 /\ bitIndex < Len(binaryMessage) /\ binaryMessage[bitIndex + 1] = 1
            THEN SetBit(d[k], 0, 1)
            ELSE d[k]]

\* applyLSB: sample i+j (j < 3) of pixel i/4 takes message bit 3*(i/4)+j in
\* its bit 0 while bits are left; the loop returns at the first sample with
\* no bit left, so nothing else is written
applyLSB(d, binaryMessage) ==
    [k \in 1..Len(d) |->
        LET i == k - 1
            j == i % 4
            bitIndex == 3 * (i \div 4) + j
        IN  IF j < 3 /\ bitIndex < Len(binaryMessage)
            THEN SetBit(d[k], 0, binaryMessage[bitIndex + 1])
            ELSE d[k]]

\* the cap of extractLSB and extractImprovedLSB
LSBMaxBits == 100000

\* Math.min(data.length * 0.75, 100000), data.length being 4 * pixels
LSBReadBits(d) == Min((3 * Len(d)) \div 4, LSBMaxBits)

\* extractLSB: bit 0 of R,G,B of every pixel in order, up to the cap
extractLSB(d) ==
    [n \in 1..LSBReadBits(d) |->
        LET bitIndex == n - 1
        IN  Bit(At(d, 4 * (bitIndex \div 3) + (bitIndex % 3)), 0)]

----------------------------------------------------------------------------
(* MultiPlaneLSB *)

\* the bit position each channel uses: Red 1, Green 0, Blue 2
ImprovedBitPos(j) == IF j = 0 THEN 1 ELSE IF j = 1 THEN 0 ELSE 2

\* applyImprovedLSB
applyImprovedLSB(d, binaryMessage) ==
    [k \in 1..Len(d) |->
        LET i == k - 1
            j == i % 4
            bitIndex == 3 * (i \div 4) + j
        IN  IF j < 3 /\ bitIndex < Len(binaryMessage)
            THEN SetBit(d[k], ImprovedBitPos(j), binaryMessage[bitIndex + 1])
            ELSE d[k]]

\* extractImprovedLSB
extractImprovedLSB(d) ==
    [n \in 1..LSBReadBits(d) |->
        LET bitIndex == n - 1
            j == bitIndex % 3
        IN  Bit(At(d, 4 * (bitIndex \div 3) + j), ImprovedBitPos(j))]

----------------------------------------------------------------------------
(* Typed-array semantics *)

\* the number of pixels of a buffer
NPix(d) == Len(d) \div 4

\* the blue sample of pixel p: data[p * 4 + channel] with channel = 2
Blue(d, p) == At(d, 4 * p + 2)

\* a Uint8ClampedArray store of the integer v keeps v clamped to 0..255
Clamp8(v) == Max(0, Min(255, v))

\* the value a Uint8ClampedArray keeps for the number num/den (den > 0):
\* rounded to the nearest integer, ties to even, then clamped
ClampRatio8(num, den) ==
    LET q == num \div den
        r == num % den
    IN  Clamp8(IF 2 * r < den THEN q
               ELSE IF 2 * r > den THEN q + 1
               ELSE IF q % 2 = 0 THEN q ELSE q + 1)

\* a sequence with all its entries computed
Force(s) == s \o <<>>

RECURSIVE SumRange(_, _, _)
\* f[lo] + ... + f[hi]
SumRange(f, lo, hi) ==
    IF lo > hi THEN 0
    ELSE IF lo = hi THEN f[lo]
    ELSE LET mid == (lo + hi) \div 2
         IN  SumRange(f, lo, mid) + SumRange(f, mid + 1, hi)

\* the sum of the numbers f[1] .. f[n]
SumOver(f, n) == SumRange(f, 1, n)

----------------------------------------------------------------------------
(* HistogramPeakShift *)

\* the pixels reserved for metadata
HistReserved == 32

\* Step 1: how often each value 0..255 is the blue sample of a pixel from
\* index 32 on; entry v + 1 counts the value v
computeHistogram(d) ==
    LET pixels == HistReserved..(NPix(d) - 1)
        present == {Blue(d, p) : p \in pixels}
    IN  Force([v1 \in 1..256 |->
            IF (v1 - 1) \in present
            THEN Cardinality({p \in pixels : Blue(d, p) = v1 - 1})
            ELSE 0])

\* Step 2: the most frequent value, the first one among equals: the loop
\* moves to index i only when histogram[i] exceeds every count before it,
\* and stays at 0 when every count is 0
findPeakPoint(histogram) ==
    LET counts == {histogram[i + 1] : i \in 0..255}
        peakValue == CHOOSE c \in counts : \A c2 \in counts : c2 <= c
    IN  IF peakValue = 0 THEN 0
        ELSE CHOOSE i \in 0..255 :
                /\ histogram[i + 1] = peakValue
                /\ \A j \in 0..(i - 1) : histogram[j + 1] # peakValue

\* a faulty variant of findZeroPoint: it starts on the other side of the
\* peak, below a peak up to 127 and above a higher one; histogram[-1] and
\* histogram[256] are undefined and no count compares below them
findZeroPointStartingOutward(histogram, peakPoint, searchRange) ==
    LET zeroPoint == IF peakPoint > 127 THEN peakPoint + 1 ELSE peakPoint - 1
        lowerBound == Max(1, peakPoint - searchRange)
        upperBound == Min(254, peakPoint + searchRange)
        better == IF zeroPoint \notin 0..255 THEN {}
                  ELSE {i \in lowerBound..upperBound :
                          /\ i # peakPoint
                          /\ histogram[i + 1] < histogram[zeroPoint + 1]
                          /\ histogram[i + 1] > 0}
        best == {i \in better : \A j \in better : histogram[i + 1] <= histogram[j + 1]}
    IN  IF better = {} THEN zeroPoint
        ELSE CHOOSE i \in best : \A j \in best : i <= j

\* Step 3: starts next to the peak (minValue its count) and moves to every
\* index in lowerBound..upperBound, other than the peak, whose count is not
\* zero and smaller than minValue: it ends on the first index of the
\* smallest such count, or where it started
findZeroPoint(histogram, peakPoint, searchRange) ==
    LET zeroPoint == IF peakPoint > 127 THEN peakPoint - 1 ELSE peakPoint + 1
        minValue == histogram[zeroPoint + 1]
        lowerBound == Max(1, peakPoint - searchRange)
        upperBound == Min(254, peakPoint + searchRange)
        better == {i \in lowerBound..upperBound :
                      i # peakPoint /\ histogram[i + 1] < minValue /\ histogram[i + 1] > 0}
        best == {i \in better : \A j \in better : histogram[i + 1] <= histogram[j + 1]}
    IN  IF better = {} THEN zeroPoint
        ELSE CHOOSE i \in best : \A j \in best : i <= j

\* const searchRange = 20
HistSearchRange == 20

\* Step 4: every pixel from index 32 on whose blue value lies strictly
\* between the peak and the zero point moves one step towards the zero point
HistShift(d, peakPoint, zeroPoint) ==
    LET shiftRight == zeroPoint > peakPoint
    IN  Force([k \in 1..Len(d) |->
            LET i == k - 1
                pixelValue == d[k]
            IN  IF i % 4 = 2 /\ i \div 4 >= HistReserved
                THEN IF shiftRight
                     THEN IF pixelValue > peakPoint /\ pixelValue < zeroPoint
                          THEN Clamp8(pixelValue + 1) ELSE pixelValue
                     ELSE IF pixelValue > zeroPoint /\ pixelValue < peakPoint
                          THEN Clamp8(pixelValue - 1) ELSE pixelValue
                ELSE pixelValue])

\* the pixels from index 32 on whose blue sample is the peak, in order
HistCarriers(d, peakPoint) ==
    SelectSeq([n \in 1..Max(0, NPix(d) - HistReserved) |-> HistReserved + n - 1],
              LAMBDA p : Blue(d, p) = peakPoint)

\* Step 5: the pixels at the peak take the message bits in order, one each,
\* until the message or the buffer ends; a 1 moves the pixel off the peak.
\* Gives the buffer and bitIndex.
HistEmbed(d, binaryMessage, peakPoint, shiftRight) ==
    LET carriers == HistCarriers(d, peakPoint)
        bitIndex == Min(Len(carriers), Len(binaryMessage))
        rank == [p \in {carriers[n] : n \in 1..bitIndex} |->
                    CHOOSE n \in 1..bitIndex : carriers[n] = p]
    IN  [data |-> Force([k \in 1..Len(d) |->
                    LET i == k - 1
                    IN  IF i % 4 = 2 /\ (i \div 4) \in DOMAIN rank
                           /\ binaryMessage[rank[i \div 4]] = 1
                        THEN Clamp8(IF shiftRight THEN peakPoint + 1 ELSE peakPoint - 1)
                        ELSE d[k]]),
         bitIndex |-> bitIndex]

\* a faulty variant of the metadata: the peak point and the zero point
\* written to each other's pixel
HistMetadataSwapped(d, binaryMessage, peakPoint, zeroPoint, shiftRight) ==
    Force([k \in 1..Len(d) |->
        LET i == (k - 1) \div 4
        IN  IF (k - 1) % 4 # 2 \/ i > 10 THEN d[k]
            ELSE IF i < 8 THEN (i + 1) * 10
            ELSE IF i = 8 THEN zeroPoint
            ELSE IF i = 9 THEN peakPoint
            ELSE IF shiftRight THEN 1 ELSE 0])

\* lines 789-808: the metadata written after the embedding, in the blue
\* sample of pixels 0..12; a pixel the buffer does not have is not written
HistMetadata(d, binaryMessage, peakPoint, zeroPoint, shiftRight) ==
    Force([k \in 1..Len(d) |->
        LET i == (k - 1) \div 4
        IN  IF (k - 1) % 4 # 2 \/ i > 12 THEN d[k]
            ELSE IF i < 8 THEN (i + 1) * 10
            ELSE IF i = 8 THEN peakPoint
            ELSE IF i = 9 THEN zeroPoint
            ELSE IF i = 10 THEN (IF shiftRight THEN 1 ELSE 0)
            ELSE IF i = 11
                 \* Math.min(255, binaryMessage.length / 8), as the clamped array keeps it
                 THEN (IF Len(binaryMessage) > 255 * 8 THEN 255
                       ELSE ClampRatio8(Len(binaryMessage), 8))
            ELSE IF Len(binaryMessage) > 255 * 8
                 THEN Clamp8(Len(binaryMessage) \div (8 * 256)) ELSE 0])

\* applyHistogramShifting: the buffer it leaves, with the values it computed
\* on the way
applyHistogramShifting(d, binaryMessage) ==
    LET histogram == computeHistogram(d)
        peakPoint == findPeakPoint(histogram)
        zeroPoint == findZeroPoint(histogram, peakPoint, HistSearchRange)
        shiftRight == zeroPoint > peakPoint
        shifted == HistShift(d, peakPoint, zeroPoint)
        emb == HistEmbed(shifted, binaryMessage, peakPoint, shiftRight)
    IN  [data |-> HistMetadata(emb.data, binaryMessage, peakPoint, zeroPoint,
                               shiftRight),
         bitIndex |-> emb.bitIndex,
         peakPoint |-> peakPoint,
         zeroPoint |-> zeroPoint,
         shiftRight |-> shiftRight,
         shifted |-> shifted]

\* a faulty variant of the signature test: it stops one pixel early
HistSignatureFirstSeven(d) ==
    \A i \in 0..6 : 4 * i + 2 < Len(d) /\ Blue(d, i) = (i + 1) * 10

\* lines 823-830: the blue samples of pixels 0..7 are (i + 1) * 10; a sample
\* the buffer does not have is undefined and matches nothing
HistSignatureValid(d) ==
    \A i \in 0..7 : 4 * i + 2 < Len(d) /\ Blue(d, i) = (i + 1) * 10

\* lines 838-868 of extractHistogramShifting, the signature being valid
HistReadBits(d) ==
    IF NPix(d) <= HistReserved THEN <<>>
    ELSE
    LET peakPoint == Blue(d, 8)
        shiftRight == Blue(d, 10) = 1
        messageLength == (Blue(d, 11) + Blue(d, 12) * 256) * 8
        one == IF shiftRight THEN peakPoint + 1 ELSE peakPoint - 1
        values == [n \in 1..(NPix(d) - HistReserved) |-> Blue(d, HistReserved + n - 1)]
        carriers == SelectSeq(values, LAMBDA v : v = peakPoint \/ v = one)
    IN  [n \in 1..Min(Len(carriers), messageLength) |->
            IF carriers[n] = peakPoint THEN 0 ELSE 1]

----------------------------------------------------------------------------
(* SpatialPatchBias ("Patchwork") *)

\* const patchSize = 8
PatchSize == 8
\* const maxBits = 10000 of extractPatchwork
PatchMaxBits == 10000

NaN == -1

\* a % m of JavaScript for a >= 0: NaN for m = 0, and the sign of m is ignored
JSMod(a, m) ==
    IF m = 0 THEN NaN ELSE IF m < 0 THEN a % (0 - m) ELSE a % m

\* lines 383-384: the patch origin applyPatchwork computes
EncPatchOrigin(bitIndex, w, h) ==
    <<JSMod(bitIndex * 29, w - PatchSize), JSMod(bitIndex * 37, h - PatchSize)>>

\* a faulty variant of the decoder's origin: the patch of the next bit index
DecPatchOriginOfNextBit(bitIndex, w, h) ==
    <<JSMod((bitIndex + 1) * 29, w - PatchSize),
      JSMod((bitIndex + 1) * 37, h - PatchSize)>>

\* a faulty variant of the decoder's origin: the remainders are taken by the
\* width and the height
DecPatchOriginInImage(bitIndex, w, h) ==
    <<JSMod(bitIndex * 29, w), JSMod(bitIndex * 37, h)>>

\* lines 433-434: the patch origin extractPatchwork computes
DecPatchOrigin(bitIndex, w, h) ==
    <<JSMod(bitIndex * 29, w - PatchSize), JSMod(bitIndex * 37, h - PatchSize)>>

\* how many (x, y) of the 8x8 loop address pixel p:
\* ((patchY + y) * width + (patchX + x)) = p
PatchHits(p, w, patchX, patchY) ==
    IF w > PatchSize
    THEN \* a patch row stays inside its image row: at most one (x, y)
         LET y == (p \div w) - patchY
             x == (p % w) - patchX
         IN  IF y >= 0 /\ y < PatchSize /\ x >= 0 /\ x < PatchSize THEN 1 ELSE 0
    ELSE Cardinality({y \in 0..(PatchSize - 1) :
            LET x == p - (patchY + y) * w - patchX
            IN  x >= 0 /\ x < PatchSize})

\* lines 389-407: the blue sample of every pixel the patch addresses goes up
\* by one for bit 1 unless it is 255, down by one for bit 0 unless it is 0;
\* an index outside the array, or NaN, reads undefined and stores nothing
PatchApplyBit(d, w, h, bitIndex, bit) ==
    LET o == EncPatchOrigin(bitIndex, w, h)
    IN  IF o[1] = NaN \/ o[2] = NaN THEN d
        ELSE Force([k \in 1..Len(d) |->
                LET i == k - 1
                    n == IF i % 4 = 2 THEN PatchHits(i \div 4, w, o[1], o[2]) ELSE 0
                IN  IF n = 0 THEN d[k]
                    ELSE IF bit = 1 THEN Min(255, d[k] + n)
                    ELSE Max(0, d[k] - n)])

RECURSIVE PatchRange(_, _, _, _, _, _)
\* the while loop of applyPatchwork for the bits lo..hi in order
PatchRange(d, binaryMessage, w, h, lo, hi) ==
    IF lo > hi THEN d
    ELSE IF lo = hi THEN PatchApplyBit(d, w, h, lo, binaryMessage[lo + 1])
    ELSE LET mid == (lo + hi) \div 2
             firstHalf == PatchRange(d, binaryMessage, w, h, lo, mid)
         IN  \* an empty buffer has no sample to change
             IF firstHalf = <<>> THEN firstHalf
             ELSE PatchRange(firstHalf, binaryMessage, w, h, mid + 1, hi)

applyPatchwork(d, binaryMessage, w, h) ==
    PatchRange(d, binaryMessage, w, h, 0, Len(binaryMessage) - 1)


\* lines 436-482: the bit extractPatchwork emits for bitIndex: 1 when the
\* mean blue of the patch exceeds the mean blue of the border ring inside the
\* image.  A patch pixel outside the array reads undefined, the sum is NaN
\* and the comparison false.
PatchBit(d, w, h, bitIndex) ==
    LET o == DecPatchOrigin(bitIndex, w, h)
        patchX == o[1]
        patchY == o[2]
        inner == [n \in 1..64 |->
                    ((patchY + ((n - 1) \div 8)) * w + (patchX + ((n - 1) % 8)))]
        ring == {c \in (-1..PatchSize) \X (-1..PatchSize) :
                    /\ ~(c[1] >= 0 /\ c[1] < PatchSize /\ c[2] >= 0 /\ c[2] < PatchSize)
                    /\ patchY + c[1] >= 0 /\ patchY + c[1] < h
                    /\ patchX + c[2] >= 0 /\ patchX + c[2] < w}
        ringSeq == [n \in 1..100 |->
                    LET y == ((n - 1) \div 10) - 1
                        x == ((n - 1) % 10) - 1
                    IN  IF <<y, x>> \in ring
                        THEN Blue(d, (patchY + y) * w + (patchX + x)) ELSE 0]
        blueSum == SumOver([n \in 1..64 |-> Blue(d, inner[n])], 64)
        pixelCount == 64
        surroundingBlueSum == SumOver(ringSeq, 100)
        surroundingPixelCount == Cardinality(ring)
    IN  IF patchX = NaN \/ patchY = NaN THEN 0
        ELSE IF \E n \in 1..64 : inner[n] >= NPix(d) THEN 0
        ELSE IF surroundingPixelCount = 0 THEN 0
        ELSE IF blueSum * surroundingPixelCount > surroundingBlueSum * pixelCount
             THEN 1 ELSE 0

RECURSIVE GCD(_, _)
GCD(a, b) == IF b = 0 THEN a ELSE GCD(b, a % b)

\* the patch origin of bitIndex depends on bitIndex modulo |width - 8| and
\* modulo |height - 8| only: the bits of a buffer repeat with this period
PatchPeriod(w, h) ==
    LET mx == IF w >= PatchSize THEN w - PatchSize ELSE PatchSize - w
        my == IF h >= PatchSize THEN h - PatchSize ELSE PatchSize - h
    IN  IF mx = 0 \/ my = 0 THEN 1 ELSE (mx * my) \div GCD(mx, my)

\* extractPatchwork: one bit per bitIndex < 10000; after every 8 bits, from
\* 40 on, the text of the bits so far is searched for the terminator and the
\* loop returns when it is there.  The buffer is only read, so the bit of
\* bitIndex is the bit of bitIndex modulo the period; and the first check
\* that succeeds is the first whose last five characters are the terminator.
extractPatchwork(d, w, h) ==
    LET period == PatchPeriod(w, h)
        row == Force([n \in 1..Min(period, PatchMaxBits) |-> PatchBit(d, w, h, n - 1)])
        bitAt(i) == row[(i % period) + 1]
        term == textToBinary(Terminator)
        stops == {k \in 5..(PatchMaxBits \div 8) :
                    \A j \in 1..40 : bitAt(8 * k - 40 + j - 1) = term[j]}
        n == IF stops = {} THEN PatchMaxBits
             ELSE 8 * (CHOOSE k \in stops : \A k2 \in stops : k <= k2)
    IN  Force([i \in 1..n |-> bitAt(i - 1)])

----------------------------------------------------------------------------
(* BlockTransform: the 8x8 DCT in fixed point                              *)
(*                                                                         *)
(* The source computes in IEEE doubles.  Here a real number r is the       *)
(* integer r * 2^16 (rounded) and a cosine is the integer cos * 2^22, so   *)
(* that every product fits the checker's 32-bit integers; a coefficient is *)
(* exact to about 2^-12.  A block is the sequence of its 64 entries, entry *)
(* [a][b] at index 8 * a + b + 1.                                          *)

\* one unit of a fixed-point value
One == 65536

\* cos(k * PI / 16) * 2^22 for k = 0..31
CosTable ==
    <<4194304, 4113712, 3875032, 3487436, 2965821, 2330230, 1605091, 818268,
      0, -818268, -1605091, -2330230, -2965821, -3487436, -3875032, -4113712,
      -4194304, -4113712, -3875032, -3487436, -2965821, -2330230, -1605091,
      -818268, 0, 818268, 1605091, 2330230, 2965821, 3487436, 3875032, 4113712>>

\* Math.cos(((2 * x + 1) * u * Math.PI) / (2 * N)) * 2^22, N = 8
Cos22(x, u) == CosTable[(((2 * x + 1) * u) % 32) + 1]

\* (1 / Math.sqrt(2)) * 2^22
InvSqrt2 == 2965821

\* cu * cos(...) * 2^22 with cu = 1 / sqrt(2) for u = 0, else 1
CCos22(x, u) == IF u = 0 THEN InvSqrt2 ELSE Cos22(x, u)

\* a * c / 2^22 rounded down, for |a| < 2^30 and |c| <= 2^22, computed in
\* parts that stay below 2^31
MulCos(a, c) ==
    LET a1 == a \div 32768
        a0 == a % 32768
        c1 == c \div 2048
        c0 == c % 2048
    IN  a1 * c1 * 16 + ((a1 * c0 * 16 + a0 * c1 + ((a0 * c0) \div 2048)) \div 2048)

\* a fixed-point value at scale 2^22 brought to scale 2^16, to nearest
To16(t) == (t + 32) \div 64

\* Math.round of a fixed-point value: the nearest integer, halves up
Round(v) == (v + (One \div 2)) \div One

\* Math.floor of a fixed-point value
Floor(v) == v \div One

\* a fixed-point value at scale 2^19 brought to scale 2^16, to nearest
To16From19(t) == (t + 4) \div 8

\* applyDCT, lines 13-17.  The double sum over (x, y) of
\* block[x][y] * cos(x, u) * cos(y, v) is taken as the sum over y of
\* cos(y, v) times the sum over x of block[x][y] * cos(x, u), which is the
\* same number: entry 8 * u + y + 1 is that inner sum, at scale 2^19
DCTColumnSums(block) ==
    Force([m \in 1..64 |->
        LET u == (m - 1) \div 8
            y == (m - 1) % 8
        IN  SumOver([k \in 1..8 |->
                (block[8 * (k - 1) + y + 1] * Cos22(k - 1, u) + 4) \div 8], 8)])

\* applyDCT of a block of integer samples: coefficient (u, v) is
\* (1/4) * cu * cv * sum.  For (0, 0) the sum is the exact sum of the
\* samples and the double (1/4) * cu * cv is 0.12499999999999997, just below
\* 1/8: the coefficient is just below sum / 8 whenever the sum is positive.
applyDCT(block) ==
    LET inner == DCTColumnSums(block)
    IN  Force([m \in 1..64 |->
            LET u == (m - 1) \div 8
                v == (m - 1) % 8
                sum == SumOver([k \in 1..8 |->
                          To16From19(MulCos(inner[8 * u + k], Cos22(k - 1, v)))], 8)
            IN  IF u = 0 /\ v = 0
                THEN LET s == SumOver(block, 64)
                     IN  IF s > 0 THEN s * (One \div 8) - 1 ELSE s * (One \div 8)
                ELSE IF u = 0 \/ v = 0
                THEN MulCos(sum, InvSqrt2) \div 4
                ELSE sum \div 4])

\* applyInverseDCT, lines 51-56: the inner sum over v of
\* cv * dctCoeffs[u][v] * cos(y, v), entry 8 * u + y + 1
IDCTRowSums(dctCoeffs) ==
    Force([m \in 1..64 |->
        LET u == (m - 1) \div 8
            y == (m - 1) % 8
        IN  SumOver([k \in 1..8 |->
                MulCos(dctCoeffs[8 * u + k], CCos22(y, k - 1))], 8)])

\* applyInverseDCT: sample (x, y) is (1/4) * sum, the sum over (u, v) taken
\* as the sum over u of cu * cos(x, u) times the inner sum over v
applyInverseDCT(dctCoeffs) ==
    LET inner == IDCTRowSums(dctCoeffs)
    IN  Force([n \in 1..64 |->
            LET x == (n - 1) \div 8
                y == (n - 1) % 8
            IN  SumOver([k \in 1..8 |->
                    MulCos(inner[8 * (k - 1) + y + 1], CCos22(x, k - 1))], 8) \div 4])

----------------------------------------------------------------------------
(* BlockTransform alone, in wide fixed point                               *)
(*                                                                         *)
(* For the round trip of a block through applyDCT and applyInverseDCT a   *)
(* real number r is the integer r * 2^32 and a cosine the integer          *)
(* cos * 2^42, both kept as four limbs <<a0, a1, a2, a3>> of 14 bits,      *)
(* a0 + a1 * 2^14 + a2 * 2^28 + a3 * 2^42 with 0 <= a0, a1, a2 < 2^14 and  *)
(* a3 carrying the sign.  Every product rounds to 2^-33, which is coarser  *)
(* than the rounding of a double of this size (2^-39 at most), and a       *)
(* cosine is exact to 2^-43.                                               *)

\* the base of a limb
WBase == 16384

\* carries taken out of four unnormalised limbs
WNorm(a0, a1, a2, a3) ==
    LET t1 == a1 + (a0 \div WBase)
        t2 == a2 + (t1 \div WBase)
    IN  <<a0 % WBase, t1 % WBase, t2 % WBase, a3 + (t2 \div WBase)>>

\* the integer n as a wide value: n * 2^32 = (16 * n) * 2^28
WFromInt(n) == WNorm(0, 0, 16 * n, 0)

WAdd(a, b) == WNorm(a[1] + b[1], a[2] + b[2], a[3] + b[3], a[4] + b[4])

WSub(a, b) == WNorm(a[1] - b[1], a[2] - b[2], a[3] - b[3], a[4] - b[4])

\* the sum of the eight wide values of a sequence
WSum8(q) ==
    WNorm(q[1][1] + q[2][1] + q[3][1] + q[4][1] + q[5][1] + q[6][1] + q[7][1] + q[8][1],
          q[1][2] + q[2][2] + q[3][2] + q[4][2] + q[5][2] + q[6][2] + q[7][2] + q[8][2],
          q[1][3] + q[2][3] + q[3][3] + q[4][3] + q[5][3] + q[6][3] + q[7][3] + q[8][3],
          q[1][4] + q[2][4] + q[3][4] + q[4][4] + q[5][4] + q[6][4] + q[7][4] + q[8][4])

\* a * c / 2^42 to nearest, for a wide value a (|a| < 2^56) and a factor c at
\* scale 2^42 (|c| <= 2^42): the partial products by weight, each below
\* 2^28, then the three low limbs dropped with their carry
WMul(a, c) ==
    LET p0 == a[1] * c[1]
        p1 == a[1] * c[2] + a[2] * c[1]
        p2 == a[1] * c[3] + a[2] * c[2] + a[3] * c[1]
        p3 == a[1] * c[4] + a[2] * c[3] + a[3] * c[2] + a[4] * c[1]
        p4 == a[2] * c[4] + a[3] * c[3] + a[4] * c[2]
        p5 == a[3] * c[4] + a[4] * c[3]
        p6 == a[4] * c[4]
        t1 == p1 + (p0 \div WBase)
        t2 == p2 + (WBase \div 2) + (t1 \div WBase)
    IN  WNorm(p3 + (t2 \div WBase), p4, p5, p6)

\* whether |a| < n for a wide value a and 0 < n < 2^28
WAbsBelow(a, n) ==
    LET low == a[1] + a[2] * WBase
    IN  \/ a[4] = 0 /\ a[3] = 0 /\ low < n
        \/ a[4] = -1 /\ a[3] = WBase - 1 /\ WBase * WBase - low < n

\* cos(k * PI / 16) * 2^42 for k = 0..31
WCosTable ==
    <<<<0, 0, 0, 1>>,
      <<16108, 3047, 16069, 0>>,
      <<9810, 13799, 15136, 0>>,
      <<8660, 13076, 13622, 0>>,
      <<4071, 3891, 11585, 0>>,
      <<13773, 7580, 9102, 0>>,
      <<10987, 14505, 6269, 0>>,
      <<9037, 5895, 3196, 0>>,
      <<0, 0, 0, 0>>,
      <<7347, 10488, 13187, -1>>,
      <<5397, 1878, 10114, -1>>,
      <<2611, 8803, 7281, -1>>,
      <<12313, 12492, 4798, -1>>,
      <<7724, 3307, 2761, -1>>,
      <<6574, 2584, 1247, -1>>,
      <<276, 13336, 314, -1>>,
      <<0, 0, 0, -1>>,
      <<276, 13336, 314, -1>>,
      <<6574, 2584, 1247, -1>>,
      <<7724, 3307, 2761, -1>>,
      <<12313, 12492, 4798, -1>>,
      <<2611, 8803, 7281, -1>>,
      <<5397, 1878, 10114, -1>>,
      <<7347, 10488, 13187, -1>>,
      <<0, 0, 0, 0>>,
      <<9037, 5895, 3196, 0>>,
      <<10987, 14505, 6269, 0>>,
      <<13773, 7580, 9102, 0>>,
      <<4071, 3891, 11585, 0>>,
      <<8660, 13076, 13622, 0>>,
      <<9810, 13799, 15136, 0>>,
      <<16108, 3047, 16069, 0>>>>

\* Math.cos(((2 * x + 1) * u * Math.PI) / (2 * N)), N = 8
WCos(x, u) == WCosTable[(((2 * x + 1) * u) % 32) + 1]

\* 1 / Math.sqrt(2)
WInvSqrt2 == <<4071, 3891, 11585, 0>>

\* cu * cos(...) with cu = 1 / sqrt(2) for u = 0, else 1
WCCos(x, u) == IF u = 0 THEN WInvSqrt2 ELSE WCos(x, u)

\* a faulty variant of the factor of applyDCT: cu and cv forgotten
WScaleWithoutC(u, v) == <<0, 0, 4096, 0>>

\* (1 / 4) * cu * cv of applyDCT, line 23: 1/8 for (0, 0), 1 / (4 * sqrt(2))
\* in row 0 and in column 0, 1/4 elsewhere
WScale(u, v) ==
    IF u = 0 /\ v = 0 THEN <<0, 0, 2048, 0>>
    ELSE IF u = 0 \/ v = 0 THEN <<13306, 5068, 2896, 0>>
    ELSE <<0, 0, 4096, 0>>

\* applyDCT on a block of samples, in wide values: the sum over (x, y) taken
\* as the sum over y of cos(y, v) times the sum over x of
\* block[x][y] * cos(x, u)
WideDCT(samples) ==
    LET inner == Force([m \in 1..64 |->
                    LET u == (m - 1) \div 8
                        y == (m - 1) % 8
                    IN  WSum8([k \in 1..8 |->
                            WMul(WFromInt(samples[8 * (k - 1) + y + 1]), WCos(k - 1, u))])])
    IN  Force([m \in 1..64 |->
            LET u == (m - 1) \div 8
                v == (m - 1) % 8
                sum == WSum8([k \in 1..8 |-> WMul(inner[8 * u + k], WCos(k - 1, v))])
            IN  WMul(sum, WScale(u, v))])

\* applyInverseDCT on wide coefficients: sample (x, y) is (1/4) * sum, the
\* sum over (u, v) of cu * cv * coefficient * cos(x, u) * cos(y, v) taken as
\* the sum over u of cu * cos(x, u) times the sum over v
WideInverseDCT(coefficients) ==
    LET inner == Force([m \in 1..64 |->
                    LET u == (m - 1) \div 8
                        y == (m - 1) % 8
                    IN  WSum8([k \in 1..8 |->
                            WMul(coefficients[8 * u + k], WCCos(y, k - 1))])])
    IN  Force([n \in 1..64 |->
            LET x == (n - 1) \div 8
                y == (n - 1) % 8
                sum == WSum8([k \in 1..8 |->
                          WMul(inner[8 * (k - 1) + y + 1], WCCos(x, k - 1))])
            IN  WMul(sum, <<0, 0, 4096, 0>>)])

----------------------------------------------------------------------------
(* Blocks of a buffer *)

\* extractBlock: block[i][j] = data[((y + i) * width + (x + j)) * 4 + channel]
extractBlock(d, w, x, y, channel) ==
    Force([n \in 1..64 |->
        At(d, ((y + ((n - 1) \div 8)) * w + (x + ((n - 1) % 8))) * 4 + channel)])

\* a faulty variant of writeBlock: the block is written to the three colours
writeBlockEveryColour(d, w, x, y, block, channel) ==
    Force([k \in 1..Len(d) |->
        LET idx == k - 1
            p == idx \div 4
            i == (p \div w) - y
            j == (p % w) - x
        IN  IF idx % 4 # 3 /\ i >= 0 /\ i < 8 /\ j >= 0 /\ j < 8
            THEN Max(0, Min(255, Round(block[8 * i + j + 1])))
            ELSE d[k]])

\* writeBlock: every sample of the block rounded and clamped to 0..255
writeBlock(d, w, x, y, block, channel) ==
    Force([k \in 1..Len(d) |->
        LET idx == k - 1
            p == idx \div 4
            i == (p \div w) - y
            j == (p % w) - x
        IN  IF idx % 4 = channel /\ i >= 0 /\ i < 8 /\ j >= 0 /\ j < 8
            THEN Max(0, Min(255, Round(block[8 * i + j + 1])))
            ELSE d[k]])

----------------------------------------------------------------------------
(* FrequencyCoefficientQuant ("DCT") *)

\* const blockSize = 8
BlockSize == 8
\* const channel = 2 (blue)
DCTChannel == 2
\* const quantStep = 8
QuantStep == 8

\* embedPositions (3,3), (3,4), (4,3), (4,4) as indexes of a block
EmbedPositions == <<8 * 3 + 3 + 1, 8 * 3 + 4 + 1, 8 * 4 + 3 + 1, 8 * 4 + 4 + 1>>

\* the coefficient at rows 1..4, columns 0..3 that holds length bit i (0..15)
LengthPosition(i) == 8 * ((i \div 4) + 1) + (i % 4) + 1

\* Math.floor(c / 2) * 2: the even integer at or below c
MakeEven(c) == Floor(c \div 2) * 2 * One

\* .padStart(16, "0")
PadStart16(s) ==
    IF Len(s) >= 16 THEN s ELSE [i \in 1..(16 - Len(s)) |-> 0] \o s

\* binaryMessage.length.toString(2).padStart(16, "0")
MessageLengthBinary(binaryMessage) == PadStart16(ToBinaryDigits(Len(binaryMessage)))

\* lines 536-549: the coefficients of the metadata block: (0,0) made even,
\* the 16 length positions made even for a 0 and odd for a 1
DCTMetadataCoeffs(dctCoeffs, binaryMessage) ==
    LET messageLengthBinary == MessageLengthBinary(binaryMessage)
    IN  [m \in 1..64 |->
            IF m = 1 THEN MakeEven(dctCoeffs[m])
            ELSE IF \E i \in 0..15 : LengthPosition(i) = m
            THEN LET i == CHOOSE i \in 0..15 : LengthPosition(i) = m
                 IN  IF messageLengthBinary[i + 1] = 0
                     THEN MakeEven(dctCoeffs[m])
                     ELSE MakeEven(dctCoeffs[m]) + One
            ELSE dctCoeffs[m]]

\* lines 586-594: the coefficient c carrying bit: the nearest multiple of
\* quantStep, plus Math.floor(quantStep / 2) for a 1
DCTEmbedCoeff(c, bit) ==
    LET quantized == Round(c \div QuantStep) * QuantStep * One
    IN  IF bit = 0 THEN quantized
        ELSE quantized + (QuantStep \div 2) * One

\* lines 575-597: the coefficients of a payload block that takes the message
\* bits from bitIndex on, at most four
DCTPayloadCoeffs(dctCoeffs, binaryMessage, bitIndex) ==
    [m \in 1..64 |->
        IF \E i \in 1..4 : EmbedPositions[i] = m /\ bitIndex + i - 1 < Len(binaryMessage)
        THEN LET i == CHOOSE i \in 1..4 : EmbedPositions[i] = m
             IN  DCTEmbedCoeff(dctCoeffs[m], binaryMessage[bitIndex + i])
        ELSE dctCoeffs[m]]

\* one turn of the block loops of applyDCTSteganography, for block k in
\* raster order (blockY = k \div blocksX, blockX = k % blocksX): block 0
\* takes the metadata, block k > 0 the message bits from 4 * (k - 1) on, every
\* payload block before it having taken four
DCTBlockStep(d, binaryMessage, w, k) ==
    LET blocksX == w \div BlockSize
        x == (k % blocksX) * BlockSize
        y == (k \div blocksX) * BlockSize
        block == extractBlock(d, w, x, y, DCTChannel)
        dctCoeffs == IF k = 0
                     THEN DCTMetadataCoeffs(applyDCT(block), binaryMessage)
                     ELSE DCTPayloadCoeffs(applyDCT(block), binaryMessage, 4 * (k - 1))
        modifiedBlock == applyInverseDCT(dctCoeffs)
    IN  writeBlock(d, w, x, y, modifiedBlock, DCTChannel)

RECURSIVE DCTBlockRange(_, _, _, _, _)
\* the turns for the blocks lo..hi in order
DCTBlockRange(d, binaryMessage, w, lo, hi) ==
    IF lo > hi THEN d
    ELSE IF lo = hi THEN DCTBlockStep(d, binaryMessage, w, lo)
    ELSE LET mid == (lo + hi) \div 2
             firstHalf == DCTBlockRange(d, binaryMessage, w, lo, mid)
         IN  \* an empty buffer has no block
             IF firstHalf = <<>> THEN firstHalf
             ELSE DCTBlockRange(firstHalf, binaryMessage, w, mid + 1, hi)

\* the number of blocks the loops of applyDCTSteganography visit: they go on
\* while blocks are left and bitIndex < binaryMessage.length
DCTBlocksVisited(binaryMessage, w, h) ==
    LET blocks == (w \div BlockSize) * (h \div BlockSize)
    IN  IF Len(binaryMessage) = 0 THEN 0
        ELSE Min(blocks, 1 + ((Len(binaryMessage) + 3) \div 4))

\* applyDCTSteganography: the buffer it leaves and the bitIndex it ends with
applyDCTSteganography(d, binaryMessage, w, h) ==
    LET visited == DCTBlocksVisited(binaryMessage, w, h)
    IN  [data |-> DCTBlockRange(d, binaryMessage, w, 0, visited - 1),
         bitIndex |-> Min(Len(binaryMessage), 4 * Max(0, visited - 1))]

\* whether the 8x8 window at (x, y) reads only samples the buffer has; a
\* sample it does not have is undefined and every coefficient is NaN
BlockInBuffer(d, w, x, y) ==
    ((y + 7) * w + (x + 7)) * 4 + DCTChannel < Len(d)

\* Math.round(c) % 2 !== 0
IsOdd(c) == Round(c) % 2 # 0

\* line 636: the signature check of extractDCTSteganography fails; with NaN
\* coefficients NaN % 2 !== 0 holds and it fails too
DCTSignatureFails(d, w) ==
    IF BlockInBuffer(d, w, 0, 0)
    THEN IsOdd(applyDCT(extractBlock(d, w, 0, 0, DCTChannel))[1])
    ELSE TRUE

\* Number.parseInt(s, 2) of a bit string
FromBinary(s) ==
    SumOver([n \in 1..Len(s) |-> s[n] * Pow2(Len(s) - n)], Len(s))

\* lines 642-652: the length read from the parities of the 16 length positions
DCTReadLength(metadctCoeffs) ==
    FromBinary([n \in 1..16 |->
        IF IsOdd(metadctCoeffs[LengthPosition(n - 1)]) THEN 1 ELSE 0])

\* lines 655-699: the payload blocks are read in raster order, four bits
\* each, until messageLength bits are read or the blocks end: bit n (from 1)
\* is at position (n - 1) % 4 of block 1 + (n - 1) \div 4
DCTReadPayload(d, w, h, messageLength) ==
    LET blocksX == w \div BlockSize
        blocks == blocksX * (h \div BlockSize)
        total == Min(messageLength, 4 * Max(0, blocks - 1))
        dctCoeffs == Force([k \in 1..((total + 3) \div 4) |->
                        applyDCT(extractBlock(d, w, (k % blocksX) * BlockSize,
                                              (k \div blocksX) * BlockSize, DCTChannel))])
    IN  Force([n \in 1..total |->
            IF IsOdd(dctCoeffs[1 + ((n - 1) \div 4)][EmbedPositions[((n - 1) % 4) + 1]])
            THEN 1 ELSE 0])

\* extractDCTSteganography, the signature check having passed
DCTReadBits(d, w, h) ==
    LET metadctCoeffs == applyDCT(extractBlock(d, w, 0, 0, DCTChannel))
    IN  DCTReadPayload(d, w, h, DCTReadLength(metadctCoeffs))

----------------------------------------------------------------------------
(* processEncoding and processDecoding *)

\* a faulty variant of the capacity test: it also refuses a message that
\* fills the capacity exactly
CapacityExceededAtEquality(d, binaryMessage) ==
    4 * Len(binaryMessage) >= 3 * Len(d)

\* lines 112-118: binaryMessage.length > data.length * 0.75
CapacityExceeded(d, binaryMessage) == 4 * Len(binaryMessage) > 3 * Len(d)

\* processEncoding from line 106 on: the outcome, the buffer it leaves and,
\* for a technique that ran, the bitIndex it ended with
processEncoding(d, w, h, msg, tech) ==
    LET messageWithTerminator == msg \o Terminator
        binaryMessage == textToBinary(messageWithTerminator)
    IN  IF CapacityExceeded(d, binaryMessage)
        THEN [state |-> "CapacityExceeded", data |-> d, bitIndex |-> 0]
        ELSE CASE tech = "lsb" ->
                    [state |-> "ok", data |-> Force(applyLSB(d, binaryMessage)),
                     bitIndex |-> Min(Len(binaryMessage), 3 * NPix(d))]
               [] tech = "lsb-improved" ->
                    [state |-> "ok", data |-> Force(applyImprovedLSB(d, binaryMessage)),
                     bitIndex |-> Min(Len(binaryMessage), 3 * NPix(d))]
               [] tech = "patchwork" ->
                    [state |-> "ok", data |-> applyPatchwork(d, binaryMessage, w, h),
                     bitIndex |-> Len(binaryMessage)]
               [] tech = "dct" ->
                    LET r == applyDCTSteganography(d, binaryMessage, w, h)
                    IN  [state |-> "ok", data |-> r.data, bitIndex |-> r.bitIndex]
               [] tech = "histogram" ->
                    LET r == applyHistogramShifting(d, binaryMessage)
                    IN  [state |-> "ok", data |-> r.data, bitIndex |-> r.bitIndex]
               [] OTHER ->
                    [state |-> "UnknownTechnique", data |-> d, bitIndex |-> 0]

\* a faulty variant of the switch of processDecoding: every selector is
\* taken for lsb
extractBinaryAsLSB(d, w, h, tech) ==
    [state |-> "ok", binary |-> Force(extractLSB(d))]

\* the switch of processDecoding, lines 175-198: the outcome and the bit
\* string of the technique
extractBinary(d, w, h, tech) ==
    CASE tech = "lsb" -> [state |-> "ok", binary |-> Force(extractLSB(d))]
      [] tech = "lsb-improved" ->
            [state |-> "ok", binary |-> Force(extractImprovedLSB(d))]
      [] tech = "patchwork" -> [state |-> "ok", binary |-> extractPatchwork(d, w, h)]
      [] tech = "dct" ->
            IF DCTSignatureFails(d, w)
            THEN [state |-> "SignatureMismatch", binary |-> <<>>]
            ELSE [state |-> "ok", binary |-> DCTReadBits(d, w, h)]
      [] tech = "histogram" ->
            IF ~HistSignatureValid(d)
            THEN [state |-> "SignatureMismatch", binary |-> <<>>]
            ELSE [state |-> "ok", binary |-> Force(HistReadBits(d))]
      [] OTHER -> [state |-> "UnknownTechnique", binary |-> <<>>]

\* processDecoding: the outcome, the technique's bit string and the text
processDecoding(d, w, h, tech) ==
    LET r == extractBinary(d, w, h, tech)
    IN  [state |-> r.state,
         binary |-> r.binary,
         text |-> IF r.state = "ok"
                  THEN Force(StripTerminator(Force(binaryToText(r.binary))))
                  ELSE <<>>]

----------------------------------------------------------------------------
(* Inputs *)

\* the characters of the generated payloads: "a" and a character above 255
Alphabet == {97, 256}

RECURSIVE TextsUpTo(_)
TextsUpTo(n) ==
    IF n = 0 THEN {<<>>}
    ELSE LET shorter == TextsUpTo(n - 1)
         IN  shorter \cup {Append(t, c) : t \in shorter, c \in Alphabet}

\* "hi", "ok" and "§END"
NamedPayloads == {<<104, 105>>, <<111, 107>>, <<167, 69, 78, 68>>}

Payloads == TextsUpTo(MaxPayloadLen) \cup NamedPayloads

\* the six pixels an image repeats, from three offsets: the first on three
\* pixels of six, the second on two, the third on one
Tile(a, b, c) == <<a, b, a, c, a, b>>

Tiles == {Tile(t[1], t[2], t[3]) : t \in (0..MaxDelta) \X (0..MaxDelta) \X (0..MaxDelta)}

\* seed = 0 is no noise
Noise(seed, p, c) ==
    IF seed = 0 THEN 0
    ELSE ((p + 1) * (p + 3 + seed) * (7 + 2 * seed) + 31 * c + 13 * seed) % 251

\* sample c (0..3) of pixel p of the image img: opaque, colour base + tile +
\* noise, and the blue of its first img.stamp pixels is (p + 1) * 10
Sample(img, p, c) ==
    IF c = 3 THEN 255
    ELSE IF c = 2 /\ p < img.stamp THEN (p + 1) * 10
    ELSE (img.base + img.tile[((p + c) % 6) + 1] + Noise(img.seed, p, c)) % 256

\* what getImageData gives for the image: 4 * w * h samples
MakeBuffer(w, h, img) ==
    Force([k \in 1..(4 * w * h) |-> Sample(img, (k - 1) \div 4, (k - 1) % 4)])

Flat(base) == [base |-> base, tile |-> Tile(0, 0, 0), seed |-> 0, stamp |-> 0]

Textured(base, tile) == [base |-> base, tile |-> tile, seed |-> 0, stamp |-> 0]

Noisy(seed) == [base |-> 0, tile |-> Tile(0, 0, 0), seed |-> seed, stamp |-> 0]

Stamped(base, stamp) ==
    [base |-> base, tile |-> Tile(0, 0, 0), seed |-> 0, stamp |-> stamp]

Selectors == {"lsb", "lsb-improved", "patchwork", "dct", "histogram", "rot13"}

----------------------------------------------------------------------------
(* The state machine *)

InitOf(sizes, images, payloads, selectors) ==
    \E s \in sizes, img \in images, m \in payloads, t \in selectors :
        /\ width = s[1]
        /\ height = s[2]
        /\ orig = MakeBuffer(s[1], s[2], img)
        /\ data = orig
        /\ message = m
        /\ technique = t[1]
        /\ decTechnique = t[2]
        /\ encState = "none"
        /\ embedded = 0
        /\ decState = "none"
        /\ binary = <<>>
        /\ decoded = <<>>
        /\ NoBlock
        /\ NoTab

\* encodeMessage: processEncoding on the loaded image
Encode ==
    /\ encState = "none"
    /\ decState = "none"
    /\ LET r == processEncoding(data, width, height, message, technique)
       IN  /\ encState' = r.state
           /\ data' = r.data
           /\ embedded' = r.bitIndex
    /\ UNCHANGED <<width, height, orig, message, technique, decTechnique,
                   decState, binary, decoded, blockVars, tabVars>>

\* decodeMessage: processDecoding on the image as it is (as loaded, or as
\* encode left it)
Decode ==
    /\ decState = "none"
    /\ encState \in {"none", "ok"}
    /\ LET r == processDecoding(data, width, height, decTechnique)
       IN  /\ decState' = r.state
           /\ binary' = r.binary
           /\ decoded' = r.text
    /\ UNCHANGED <<width, height, orig, data, message, technique, decTechnique,
                   encState, embedded, blockVars, tabVars>>

Next == Encode \/ Decode

\* small images, every selector
Init ==
    InitOf({<<3, 4>>, <<4, 4>>, <<5, 5>>},
           {Flat(0), Flat(255), [Noisy(1) EXCEPT !.base = 100, !.tile = Tile(0, 1, 2)]},
           Payloads,
           {<<t, t>> : t \in Selectors})

Spec == Init /\ [][Next]_vars

\* HistogramPeakShift on images of a few close blue values, on images that
\* carry all or part of the signature, and on a buffer of six pixels
HistBases == {0, 100, 200, 253}

HistImages ==
    {Textured(b, t) : b \in HistBases, t \in Tiles}
        \cup {Stamped(100, n) : n \in {6, 7, 8}}

HistPayloads == {<<>>, <<104, 105>>, <<256>>}

\* 251 letters "a": 256 bytes with the terminator
LongPayload == [i \in 1..251 |-> 97]

InitHist ==
    \/ InitOf({<<12, 11>>, <<2, 3>>}, HistImages, HistPayloads,
              {<<"histogram", "histogram">>})
    \/ InitOf({<<27, 27>>},
              {Textured(100, Tile(0, 1, 2)), Textured(100, Tile(0, 0, 0))},
              {<<104, 105>>, LongPayload},
              {<<"histogram", "histogram">>})

SpecHist == InitHist /\ [][Next]_vars

\* SpatialPatchBias on images wider and higher than a patch
InitPatch ==
    InitOf({<<9, 9>>, <<12, 10>>, <<16, 16>>},
           {Flat(100), Flat(255), [Noisy(1) EXCEPT !.base = 100]},
           Payloads,
           {<<"patchwork", "patchwork">>})

SpecPatch == InitPatch /\ [][Next]_vars

\* FrequencyCoefficientQuant on images of 4 and of 15 blocks.  The codec
\* rounds coefficients and samples; the cases are those in which no value it
\* rounds lies within 0.002 of a rounding boundary, so that the fixed-point
\* arithmetic decides every rounding as the doubles of the source do.  They
\* are noise images encoded and decoded with dct, and the all-zero image,
\* encoded with lsb and decoded with dct.
DCTNoisyCases ==
    ({<<16, 16>>} \X {4, 7, 8, 10, 14, 17, 31, 35, 36, 37, 39} \X {<<>>})
    \cup ({<<16, 16>>} \X {2, 4, 5, 24, 27, 30, 39, 40} \X {<<97>>})
    \cup ({<<16, 16>>} \X {2, 5, 7, 9, 13, 17, 25, 31, 35, 40} \X {<<111, 107>>})
    \cup ({<<16, 16>>} \X {5, 9, 13, 31, 35, 39, 40} \X {<<104, 105>>})
    \cup ({<<40, 24>>} \X {75, 90, 204} \X {<<97>>})
    \cup ({<<40, 24>>} \X {27} \X {<<111, 107>>})
    \cup ({<<40, 24>>} \X {5, 27, 79} \X {<<104, 105>>})
    \cup ({<<19, 18>>} \X {21} \X {<<>>, <<97>>, <<104, 105>>})
    \cup ({<<13, 9>>} \X {14} \X {<<>>, <<97>>, <<104, 105>>})
    \cup ({<<20, 17>>} \X {36} \X {<<>>, <<97>>})

DCTZeroCases ==
    ({<<16, 16>>} \X {<<97>>, <<111, 107>>, <<104, 105>>})
    \cup ({<<40, 24>>} \X {<<97>>, <<104, 105>>})

InitDCT ==
    \/ \E c \in DCTNoisyCases :
          InitOf({c[1]}, {Noisy(c[2])}, {c[3]}, {<<"dct", "dct">>})
    \/ \E c \in DCTZeroCases :
          InitOf({c[1]}, {Flat(0)}, {c[2]}, {<<"lsb", "dct">>})

SpecDCT == InitDCT /\ [][Next]_vars

\* BitCodec alone: textToBinary applied to a text, binaryToText to its result
CodecAlphabet == {0, 97, 255, 256}

RECURSIVE CodecTexts(_)
CodecTexts(n) ==
    IF n = 0 THEN {<<>>}
    ELSE LET shorter == CodecTexts(n - 1)
         IN  shorter \cup {Append(t, c) : t \in shorter, c \in CodecAlphabet}

InitCodec ==
    /\ message \in CodecTexts(MaxTextLen)
    /\ width = 0
    /\ height = 0
    /\ orig = <<>>
    /\ data = <<>>
    /\ technique = "none"
    /\ decTechnique = "none"
    /\ encState = "none"
    /\ embedded = 0
    /\ decState = "none"
    /\ binary = <<>>
    /\ decoded = <<>>
    /\ NoBlock
    /\ NoTab

\* binary = textToBinary(message)
CallTextToBinary ==
    /\ encState = "none"
    /\ binary' = textToBinary(message)
    /\ encState' = "ok"
    /\ UNCHANGED <<width, height, orig, data, message, technique, decTechnique,
                   embedded, decState, decoded, blockVars, tabVars>>

\* decoded = binaryToText(binary)
CallBinaryToText ==
    /\ encState = "ok"
    /\ decState = "none"
    /\ decoded' = Force(binaryToText(binary))
    /\ decState' = "ok"
    /\ UNCHANGED <<width, height, orig, data, message, technique, decTechnique,
                   encState, embedded, binary, blockVars, tabVars>>

NextCodec == CallTextToBinary \/ CallBinaryToText

SpecCodec == InitCodec /\ [][NextCodec]_vars

\* BlockTransform alone: applyDCT applied to a block of samples 0..255,
\* applyInverseDCT to its result.  The blocks are the two flat extremes, a
\* checkerboard of the extremes, single extreme samples, noise, and noise
\* of the two extremes only.
ImpulseAt == {1, 8, 28, 64}

Blocks ==
    {Force([n \in 1..64 |-> v]) : v \in {0, 255}}
        \cup {Force([n \in 1..64 |-> IF (n + ((n - 1) \div 8)) % 2 = 0 THEN 255 ELSE 0])}
        \cup {Force([n \in 1..64 |-> IF n = p THEN 255 ELSE 0]) : p \in ImpulseAt}
        \cup {Force([n \in 1..64 |-> Noise(seed, n, 2)]) : seed \in 1..MaxBlockSeed}
        \cup {Force([n \in 1..64 |-> IF Noise(seed, n, 2) % 2 = 1 THEN 255 ELSE 0]) :
                seed \in 1..MaxBlockSeed}

InitBlock ==
    /\ inBlock \in Blocks
    /\ freqBlock = <<>>
    /\ outBlock = <<>>
    /\ width = 0
    /\ height = 0
    /\ orig = <<>>
    /\ data = <<>>
    /\ message = <<>>
    /\ technique = "none"
    /\ decTechnique = "none"
    /\ encState = "none"
    /\ embedded = 0
    /\ decState = "none"
    /\ binary = <<>>
    /\ decoded = <<>>
    /\ NoTab

\* freqBlock = applyDCT(inBlock)
CallApplyDCT ==
    /\ freqBlock = <<>>
    /\ freqBlock' = WideDCT(inBlock)
    /\ UNCHANGED <<width, height, orig, data, message, technique, decTechnique,
                   encState, embedded, decState, binary, decoded, inBlock, outBlock,
                   tabVars>>

\* outBlock = applyInverseDCT(freqBlock)
CallApplyInverseDCT ==
    /\ freqBlock # <<>>
    /\ outBlock = <<>>
    /\ outBlock' = WideInverseDCT(freqBlock)
    /\ UNCHANGED <<width, height, orig, data, message, technique, decTechnique,
                   encState, embedded, decState, binary, decoded, inBlock, freqBlock,
                   tabVars>>

NextBlock == CallApplyDCT \/ CallApplyInverseDCT

SpecBlock == InitBlock /\ [][NextBlock]_vars

\* The metadata block of applyDCTSteganography alone: the capacity test of
\* processEncoding on a width x height image, then lines 531-549 on the
\* block (0, 0) of its blue channel.  The messages are letters "a" and the
\* terminator, up to the 16 bits of the length field and beyond; binary is
\* binaryMessage.
LetterCounts == {0, 1, 2, 91, 92, 8186, 8187, 8188}

\* textToBinary of count letters "a" and the terminator, bit by bit
BitsOfLetters(count) ==
    LET letter == textToBinary(<<97>>)
        term == textToBinary(Terminator)
    IN  Force([i \in 1..(8 * count + 40) |->
            IF i <= 8 * count THEN letter[((i - 1) % 8) + 1] ELSE term[i - 8 * count]])

InitLengthField ==
    /\ \E s \in {<<16, 16>>, <<152, 152>>} : width = s[1] /\ height = s[2]
    /\ \E count \in LetterCounts : binary = BitsOfLetters(count)
    /\ \E seed \in 1..4 : inBlock = Force([n \in 1..64 |-> Noise(seed, n, 2)])
    /\ freqBlock = <<>>
    /\ outBlock = <<>>
    /\ orig = <<>>
    /\ data = <<>>
    /\ message = <<>>
    /\ technique = "dct"
    /\ decTechnique = "dct"
    /\ encState = "none"
    /\ embedded = 0
    /\ decState = "none"
    /\ decoded = <<>>
    /\ NoTab

\* the capacity test on data.length = 4 * width * height, then the metadata
\* block: freqBlock is dctCoeffs as line 549 leaves it
WriteMetadataBlock ==
    /\ encState = "none"
    /\ IF 4 * Len(binary) > 3 * (4 * width * height)
       THEN encState' = "CapacityExceeded" /\ freqBlock' = freqBlock
       ELSE /\ encState' = "ok"
            /\ freqBlock' = Force(DCTMetadataCoeffs(applyDCT(inBlock), binary))
    /\ UNCHANGED <<width, height, orig, data, message, technique, decTechnique,
                   embedded, decState, binary, decoded, inBlock, outBlock, tabVars>>

NextLengthField == WriteMetadataBlock

SpecLengthField == InitLengthField /\ [][NextLengthField]_vars

\* applyPatchwork step by step: one action is one iteration of the while
\* loop of lines 381-410.  The states start where processEncoding enters
\* applyPatchwork (the capacity test passed, binary is binaryMessage), on
\* images wider and higher than a patch, on an image as wide and high as one
\* patch and on an image narrower than one; embedded is bitIndex.
PatchStepSizes == {<<9, 9>>, <<12, 10>>, <<8, 8>>, <<5, 5>>}

InitPatchSteps ==
    /\ \E s \in PatchStepSizes, img \in {Flat(0), Flat(255), [Noisy(1) EXCEPT !.base = 100]} :
          /\ width = s[1]
          /\ height = s[2]
          /\ orig = MakeBuffer(s[1], s[2], img)
    /\ data = orig
    /\ \E m \in {<<>>, <<104, 105>>} :
          /\ message = m
          /\ binary = textToBinary(m \o Terminator)
    /\ 4 * Len(binary) <= 3 * Len(orig)
    /\ technique = "patchwork"
    /\ decTechnique = "patchwork"
    /\ encState = "none"
    /\ embedded = 0
    /\ decState = "none"
    /\ decoded = <<>>
    /\ NoBlock
    /\ NoTab

\* one iteration of the while loop: the patch of bit bitIndex, then bitIndex++
PatchStep ==
    /\ encState = "none"
    /\ embedded < Len(binary)
    /\ data' = PatchApplyBit(data, width, height, embedded, binary[embedded + 1])
    /\ embedded' = embedded + 1
    /\ encState' = IF embedded + 1 < Len(binary) THEN "none" ELSE "ok"
    /\ UNCHANGED <<width, height, orig, message, technique, decTechnique,
                   decState, binary, decoded, blockVars, tabVars>>

NextPatchSteps == PatchStep

SpecPatchSteps == InitPatchSteps /\ [][NextPatchSteps]_vars

\* extractPatchwork step by step: one action is one iteration of the for
\* loop of lines 431-491, binary the string it builds.  The buffers are one
\* never encoded, on which the loop runs to maxBits, and three as patchwork
\* encode left them.
PatchDecodeCases ==
    {<<9, 9, "none", <<>>>>, <<12, 10, "ok", <<>>>>,
     <<17, 25, "ok", <<>>>>, <<16, 39, "ok", <<97>>>>}

InitPatchDecode ==
    /\ \E c \in PatchDecodeCases :
          /\ width = c[1]
          /\ height = c[2]
          /\ encState = c[3]
          /\ message = c[4]
          /\ orig = MakeBuffer(c[1], c[2], Flat(100))
          /\ data = IF c[3] = "ok"
                    THEN applyPatchwork(orig, textToBinary(c[4] \o Terminator), c[1], c[2])
                    ELSE orig
    /\ technique = "patchwork"
    /\ decTechnique = "patchwork"
    /\ embedded = 0
    /\ decState = "none"
    /\ binary = <<>>
    /\ decoded = <<>>
    /\ NoBlock
    /\ NoTab

\* a faulty variant of the iteration: the terminator is looked for once
\* only, when 40 bits are there
ExtractStepCheckingOnce ==
    /\ decState = "none"
    /\ Len(binary) < PatchMaxBits
    /\ LET next == Force(Append(binary, PatchBit(data, width, height, Len(binary))))
           text == Force(binaryToText(next))
           found == Len(next) = 40 /\ IndexOf(text, Terminator) # -1
       IN  /\ binary' = next
           /\ decState' = IF found \/ Len(next) = PatchMaxBits THEN "ok" ELSE "none"
    /\ UNCHANGED <<width, height, orig, data, message, technique, decTechnique,
                   encState, embedded, decoded, blockVars, tabVars>>

\* one iteration: the bit of bitIndex = binary.length is appended; the loop
\* returns when the check of lines 485-490 finds the terminator, and ends
\* when bitIndex reaches maxBits
ExtractStep ==
    /\ decState = "none"
    /\ Len(binary) < PatchMaxBits
    /\ LET next == Force(Append(binary, PatchBit(data, width, height, Len(binary))))
           text == Force(binaryToText(next))
           found == /\ Len(next) % 8 = 0
                    /\ Len(next) >= 40
                    /\ IndexOf(text, Terminator) # -1
       IN  /\ binary' = next
           /\ decState' = IF found \/ Len(next) = PatchMaxBits THEN "ok" ELSE "none"
    /\ UNCHANGED <<width, height, orig, data, message, technique, decTechnique,
                   encState, embedded, decoded, blockVars, tabVars>>

NextPatchDecode == ExtractStep

SpecPatchDecode == InitPatchDecode /\ [][NextPatchDecode]_vars

----------------------------------------------------------------------------
(* DecodeTab (src/app/page.tsx) with decodeMessage                         *)
(*                                                                         *)
(* The handlers of the tab and the callbacks of the calls in flight run    *)
(* one at a time, each to its end, in any order the events allow.          *)

\* the files the user can pick: three images that carry a message hidden
\* with lsb, an image file that does not load, and a file that is no image
TabFiles ==
    <<[type |-> "image/png", loads |-> TRUE, hidden |-> <<104, 105>>],
      [type |-> "image/png", loads |-> TRUE, hidden |-> <<97>>],
      [type |-> "image/png", loads |-> TRUE, hidden |-> <<>>],
      [type |-> "image/png", loads |-> FALSE, hidden |-> <<>>],
      [type |-> "text/plain", loads |-> FALSE, hidden |-> <<>>]>>

\* the samples of a file that loads, as drawImage and getImageData give them
TabFileData(f) ==
    processEncoding(MakeBuffer(5, 5, Flat(0)), 5, 5, TabFiles[f].hidden, "lsb").data

\* characters String.prototype.trim removes
WhiteSpace ==
    {9, 10, 11, 12, 13, 32, 160, 5760, 8232, 8233, 8239, 8287, 12288, 65279}
        \cup (8192..8202)

InitDecodeTab ==
    /\ NoTab
    /\ NoBlock
    /\ decTechnique \in {"lsb", "histogram"}
    /\ technique = "none"
    /\ width = 0
    /\ height = 0
    /\ orig = <<>>
    /\ data = <<>>
    /\ message = <<>>
    /\ encState = "none"
    /\ embedded = 0
    /\ decState = "none"
    /\ binary = <<>>
    /\ decoded = <<>>

\* lines 199-217: a file is picked in the file input, which is never disabled
handleImageChange ==
    \E file \in 1..Len(TabFiles) :
        /\ IF TabFiles[file].type # "image/png"
           THEN /\ error' = "Please select a valid image file"
                /\ UNCHANGED <<image, decodedMessage, previewReaders>>
           ELSE /\ Len(previewReaders) < MaxPreviewReaders
                /\ image' = file
                /\ error' = ""
                /\ decodedMessage' = <<>>
                /\ previewReaders' = Append(previewReaders, file)
        /\ UNCHANGED <<width, height, orig, data, message, technique, decTechnique,
                       encState, embedded, decState, binary, decoded, blockVars,
                       imagePreview, isDecoding, pendingDecode>>

\* lines 212-214: reader.onload of one of the preview readers, in any order
previewOnload ==
    \E n \in 1..Len(previewReaders) :
        /\ imagePreview' = previewReaders[n]
        /\ previewReaders' = SubSeq(previewReaders, 1, n - 1)
                                \o SubSeq(previewReaders, n + 1, Len(previewReaders))
        /\ UNCHANGED <<width, height, orig, data, message, technique, decTechnique,
                       encState, embedded, decState, binary, decoded, blockVars,
                       image, decodedMessage, isDecoding, error, pendingDecode>>

\* lines 219-229: the decode button, enabled when an image is selected and
\* no decode is running (line 299), up to the await: decodeMessage starts a
\* FileReader on the image selected now
handleDecode ==
    /\ image # 0
    /\ ~isDecoding
    /\ error' = ""
    /\ isDecoding' = TRUE
    /\ pendingDecode' = <<"reading", image>>
    /\ decState' = "none"
    /\ binary' = <<>>
    /\ decoded' = <<>>
    /\ UNCHANGED <<width, height, orig, data, message, technique, decTechnique,
                   encState, embedded, blockVars,
                   image, imagePreview, decodedMessage, previewReaders>>

\* decodeMessage lines 56-69: reader.onload creates the Image and sets its src
readerOnload ==
    /\ pendingDecode # <<>>
    /\ pendingDecode[1] = "reading"
    /\ pendingDecode' = <<"loading", pendingDecode[2]>>
    /\ UNCHANGED <<width, height, orig, data, message, technique, decTechnique,
                   encState, embedded, decState, binary, decoded, blockVars,
                   image, imagePreview, decodedMessage, isDecoding, error,
                   previewReaders>>

\* decodeMessage lines 59-68 and handleDecode lines 229-239: img.onload runs
\* processDecoding and settles the promise, img.onerror rejects it; the rest
\* of handleDecode runs as a microtask before any other event
imgOnload ==
    /\ pendingDecode # <<>>
    /\ pendingDecode[1] = "loading"
    /\ pendingDecode' = <<>>
    /\ isDecoding' = FALSE
    /\ LET file == pendingDecode[2]
       IN  IF ~TabFiles[file].loads
           THEN /\ error' = "Failed to decode message: Failed to load image"
                /\ UNCHANGED <<width, height, data, decState, binary, decoded,
                               decodedMessage>>
           ELSE LET r == processDecoding(TabFileData(file), 5, 5, decTechnique)
                    result == r.text
                IN  /\ width' = 5
                    /\ height' = 5
                    /\ data' = TabFileData(file)
                    /\ decState' = r.state
                    /\ binary' = r.binary
                    /\ decoded' = result
                    /\ IF r.state # "ok"
                       THEN /\ error' = "Failed to decode message: " \o r.state
                            /\ UNCHANGED decodedMessage
                       ELSE IF \E k \in 1..Len(result) : result[k] \notin WhiteSpace
                       THEN /\ decodedMessage' = result
                            /\ UNCHANGED error
                       ELSE /\ error' = "No hidden message found or the message is empty"
                            /\ UNCHANGED decodedMessage
    /\ UNCHANGED <<orig, message, technique, decTechnique, encState, embedded,
                   blockVars, image, imagePreview, previewReaders>>

NextDecodeTab ==
    handleImageChange \/ previewOnload \/ handleDecode \/ readerOnload \/ imgOnload

SpecDecodeTab == InitDecodeTab /\ [][NextDecodeTab]_vars

----------------------------------------------------------------------------
(* The claims *)

\* the bits of the message with its terminator, as encode computes them
MessageBits == textToBinary(message \o Terminator)

\* the message was encoded into the loaded image and the result decoded
EncodedThenDecoded == encState = "ok" /\ decState # "none"

\* the 0.75 * bufferLength rule with the bit length counted at 8 bits per
\* character of payload and terminator
FitsAtEightBits == 4 * 8 * Len(message \o Terminator) <= 3 * Len(orig)

\* C1: with lsb, for every buffer and every payload whose bit length (8 bits
\* per character, terminator included) is at most 0.75 * bufferLength,
\* decoding the encoded buffer returns exactly the payload.
C1_LsbRoundTrip ==
    (technique = "lsb" /\ decTechnique = "lsb" /\ EncodedThenDecoded /\ FitsAtEightBits)
        => (decState = "ok" /\ decoded = message)

\* C2: with lsb-improved, for every buffer and every payload whose bit
\* length (8 bits per character, terminator included) is at most
\* 0.75 * bufferLength, decoding the encoded buffer returns exactly the payload.
C2_ImprovedLsbRoundTrip ==
    (technique = "lsb-improved" /\ decTechnique = "lsb-improved"
        /\ EncodedThenDecoded /\ FitsAtEightBits)
        => (decState = "ok" /\ decoded = message)

\* C3: for every selector, encode fails with CapacityExceeded exactly when
\* the bit length of payload and terminator is greater than
\* 0.75 * bufferLength (so it does not at equality), and when it fails every
\* sample of the buffer is as it was.
C3_CapacityExactly ==
    encState # "none" =>
        /\ (encState = "CapacityExceeded") <=> (4 * Len(MessageBits) > 3 * Len(orig))
        /\ encState = "CapacityExceeded" => data = orig

\* an encode refused for a message one bit or less over the capacity
C3_RefusedJustOver ==
    /\ encState = "CapacityExceeded"
    /\ 4 * Len(MessageBits) > 3 * Len(orig)
    /\ 4 * (Len(MessageBits) - 1) <= 3 * Len(orig)
    /\ data = orig

\* C4: with dct on a buffer of at least 16 x 16 pixels, every message bit
\* encode embeds in a payload coefficient is the bit the parity test of
\* decode reads back from that coefficient, and a payload embedded whole
\* ("ok" on 15 blocks) is the text decode returns.
C4_DctBitReadBack ==
    (technique = "dct" /\ encState = "ok" /\ width >= 16 /\ height >= 16) =>
        /\ DCTReadPayload(data, width, height, embedded)
              = SubSeq(MessageBits, 1, embedded)
        /\ (decTechnique = "dct" /\ decState # "none" /\ embedded = Len(MessageBits))
              => (decState = "ok" /\ decoded = message)

\* C5: decoding with dct a buffer that was never encoded with dct, the
\* all-zero buffer among them, fails with SignatureMismatch and returns no
\* message.
C5_DctUnencodedRefused ==
    (decTechnique = "dct" /\ decState # "none"
        /\ (encState = "none" \/ technique # "dct"))
        => (decState = "SignatureMismatch" /\ decoded = <<>>)

\* C6: with dct, whenever the message has more bits than
\* 4 * (floor(width / 8) * floor(height / 8) - 1), encode fails with
\* CapacityExceeded and changes no sample: it never succeeds having embedded
\* only a prefix of the message.
C6_DctCapacity ==
    (technique = "dct" /\ encState # "none"
        /\ Len(MessageBits) > 4 * ((width \div BlockSize) * (height \div BlockSize) - 1))
        => (encState = "CapacityExceeded" /\ data = orig /\ embedded = 0)

\* the buffer histogram encode has after its shift step, and the peak it found
HistShifted == applyHistogramShifting(orig, MessageBits).shifted
HistPeak == findPeakPoint(computeHistogram(orig))
HistZero == findZeroPoint(computeHistogram(orig), HistPeak, HistSearchRange)

\* C7: with histogram and a message of at most 255 bytes, if the pixels
\* from index 32 on hold at least as many blue samples at the peak after the
\* shift step as the message has bits, the bit sequence decode reads from
\* the encoded buffer is the message's, for every starting buffer.
C7_HistRoundTrip ==
    (technique = "histogram" /\ decTechnique = "histogram" /\ EncodedThenDecoded
        /\ Len(MessageBits) <= 255 * 8
        /\ Len(HistCarriers(HistShifted, HistPeak)) >= Len(MessageBits))
        => (decState = "ok" /\ binary = MessageBits)

\* C8: after histogram encode on a buffer of at least 32 pixels, whatever
\* the message and however many of its bits were embedded, the blue sample
\* of pixel i is (i + 1) * 10 for i in 0..7, pixel 8 holds the peak point,
\* pixel 9 the zero point and pixel 10 holds 1 if the shift is to the right
\* and 0 otherwise.
C8_HistMetadata ==
    (technique = "histogram" /\ encState = "ok" /\ NPix(orig) >= 32) =>
        /\ \A i \in 0..7 : Blue(data, i) = (i + 1) * 10
        /\ Blue(data, 8) = HistPeak
        /\ Blue(data, 9) = HistZero
        /\ Blue(data, 10) = (IF HistZero > HistPeak THEN 1 ELSE 0)

\* a histogram encode that embedded only a part of the message, shifting left
C8_PartlyEmbeddedLeft ==
    /\ technique = "histogram"
    /\ encState = "ok"
    /\ NPix(orig) >= 32
    /\ embedded < Len(MessageBits)
    /\ HistZero < HistPeak
    /\ Blue(data, 10) = 0

\* for some i in 0..7 the blue sample of pixel i is not (i + 1) * 10; a
\* sample the buffer does not have is no number
HistSignatureDiffers ==
    \E i \in 0..7 : 4 * i + 2 >= Len(data) \/ Blue(data, i) # (i + 1) * 10

\* C9: histogram decode fails with SignatureMismatch exactly when for some
\* i in 0..7 the blue sample of pixel i differs from (i + 1) * 10; then it
\* reads no payload bit; when all eight match it does not raise
\* SignatureMismatch.
C9_HistSignature ==
    (decTechnique = "histogram" /\ decState # "none") =>
        /\ (decState = "SignatureMismatch") <=> HistSignatureDiffers
        /\ decState = "SignatureMismatch" => (binary = <<>> /\ decoded = <<>>)

\* a decode refused for the eighth signature pixel alone
C9_RefusedOnEighthPixel ==
    /\ decTechnique = "histogram"
    /\ decState = "SignatureMismatch"
    /\ Len(data) > 4 * 7 + 2
    /\ \A i \in 0..6 : Blue(data, i) = (i + 1) * 10
    /\ Blue(data, 7) # 80

\* C10: with patchwork, width > 8 and height > 8, for every message and
\* every bit index i of it, the bit decode emits for index i on the encoded
\* buffer is the bit encode embedded at index i, so decode returns the payload.
C10_PatchworkRoundTrip ==
    (technique = "patchwork" /\ decTechnique = "patchwork" /\ EncodedThenDecoded
        /\ width > PatchSize /\ height > PatchSize) =>
        /\ decState = "ok"
        /\ Len(binary) >= Len(MessageBits)
        /\ \A n \in 1..Len(MessageBits) : binary[n] = MessageBits[n]
        /\ decoded = message

\* C11: for a fixed width and height the patch origin of bit index i is the
\* same in patchwork encode and in patchwork decode for every i >= 0 the
\* decoder can reach: both are ((i * 29) mod (width - 8),
\* (i * 37) mod (height - 8)), a function of i, width and height alone.
C11_PatchOriginsAgree ==
    (technique = "patchwork" /\ decTechnique = "patchwork" /\ EncodedThenDecoded) =>
        \A i \in 0..(PatchMaxBits - 1) :
            /\ EncPatchOrigin(i, width, height) = DecPatchOrigin(i, width, height)
            /\ (width > PatchSize /\ height > PatchSize) =>
                  DecPatchOrigin(i, width, height)
                      = <<(i * 29) % (width - PatchSize), (i * 37) % (height - PatchSize)>>

\* encode and decode have both run on an image whose patches of bits 0, 1
\* and 2 lie at three different origins, with x and y apart
C11_ThreeOriginsUsed ==
    /\ technique = "patchwork"
    /\ decTechnique = "patchwork"
    /\ EncodedThenDecoded
    /\ EncPatchOrigin(0, width, height) = <<0, 0>>
    /\ DecPatchOrigin(1, width, height) = <<1, 1>>
    /\ DecPatchOrigin(2, width, height) = <<2, 0>>

\* the selectors the two switches know
SupportedTechniques == {"lsb", "lsb-improved", "patchwork", "dct", "histogram"}

\* C12 as stated: with any other selector encode and decode fail with
\* UnknownTechnique for every buffer and message, and encode leaves the
\* buffer unchanged.
C12_UnknownForEveryMessage ==
    /\ (technique \notin SupportedTechniques /\ encState # "none") =>
          (encState = "UnknownTechnique" /\ data = orig)
    /\ (decTechnique \notin SupportedTechniques /\ decState # "none") =>
          (decState = "UnknownTechnique" /\ decoded = <<>>)

\* C12: with any other selector decode fails with UnknownTechnique for every
\* buffer, and encode fails with UnknownTechnique for every buffer and every
\* message that passes the capacity test, which comes first: a message of
\* more bits than 0.75 * bufferLength fails with CapacityExceeded instead.
\* Either way encode leaves the buffer unchanged.
C12_UnknownAfterCapacity ==
    /\ (technique \notin SupportedTechniques /\ encState # "none") =>
          /\ encState = (IF 4 * Len(MessageBits) > 3 * Len(orig)
                         THEN "CapacityExceeded" ELSE "UnknownTechnique")
          /\ data = orig
          /\ embedded = 0
    /\ (decTechnique \notin SupportedTechniques /\ decState # "none") =>
          (decState = "UnknownTechnique" /\ binary = <<>> /\ decoded = <<>>)

\* an encode of a non-empty message refused for its selector
C12_EncodeRefusedForSelector ==
    /\ technique \notin SupportedTechniques
    /\ encState = "UnknownTechnique"
    /\ message # <<>>
    /\ 4 * Len(MessageBits) <= 3 * Len(orig)
    /\ data = orig

\* the text binaryToText reconstructs from the bits decode recovered
FullMessage == Force(binaryToText(binary))

\* the indices at which the terminator occurs in a text
TerminatorHits(text) == {i \in 0..Len(text) : OccursAt(text, Terminator, i)}

\* C13: the result of a decode whose technique recovered bits is the
\* reconstructed text cut at the first occurrence of "§END§"; when the text
\* holds no terminator the result is the whole text, and no error is raised.
C13_TruncatedAtFirstTerminator ==
    (decState # "none" /\ decTechnique \in SupportedTechniques
        /\ decState # "SignatureMismatch") =>
        LET full == FullMessage
            hits == TerminatorHits(full)
        IN  /\ decState = "ok"
            /\ hits = {} => decoded = full
            /\ \A i \in hits :
                  (\A j \in hits : i <= j) => decoded = SubSeq(full, 1, i)

\* a decode whose text holds the terminator twice, cut at the first
C13_CutAtFirstOfTwo ==
    /\ decState = "ok"
    /\ LET full == FullMessage
           hits == TerminatorHits(full)
       IN  /\ Cardinality(hits) >= 2
           /\ \E i \in hits : (\A j \in hits : i <= j) /\ decoded = SubSeq(full, 1, i)

\* C14: textToBinary gives each character of the text exactly 8 bits, the
\* binary of its code with the most significant bit first, in order, so the
\* output has 8 * length(t) bits, and binaryToText of it is the text again.
C14_EightBitsRoundTrip ==
    /\ encState = "ok" =>
          /\ Len(binary) = 8 * Len(message)
          /\ \A k \in 1..Len(message) :
                message[k] = ParseByte(binary, 8 * (k - 1))
    /\ decState = "ok" => decoded = message

\* C15: for every 8x8 block B of values in 0..255, every entry of
\* applyInverseDCT(applyDCT(B)) is the entry of B within 10^-6, which is
\* 4294 units of 2^-32 (rounded down).
C15_BlockRoundTrip ==
    outBlock # <<>> =>
        \A n \in 1..64 :
            /\ inBlock[n] \in 0..255
            /\ WAbsBelow(WSub(outBlock[n], WFromInt(inBlock[n])), 4294)

\* a block of both extremes has gone through both transforms and come back
\* with a rounding error in some entry
C15_ExtremesRounded ==
    /\ outBlock # <<>>
    /\ \E n \in 1..64 : inBlock[n] = 0
    /\ \E n \in 1..64 : inBlock[n] = 255
    /\ \E n \in 1..64 : outBlock[n] # WFromInt(inBlock[n])

\* C16: with dct, for every message encode accepts, the length decode
\* reconstructs from the parities of the 16 metadata coefficients (rows
\* 1..4, columns 0..3 of block (0,0), most significant first) as encode wrote
\* them is the length of the message in bits.
C16_DctLengthField ==
    (technique = "dct" /\ encState = "ok" /\ freqBlock # <<>>) =>
        DCTReadLength(freqBlock) = Len(binary)

\* C17: with histogram, for every message encode accepts, the length in
\* bits decode reconstructs from the metadata pixels 11 and 12 as
\* (byte11 + byte12 * 256) * 8 is the bit length of the message given to
\* encode.
C17_HistLengthField ==
    (technique = "histogram" /\ encState = "ok") =>
        (Blue(data, 11) + Blue(data, 12) * 256) * 8 = Len(MessageBits)

\* the value next to the peak on the zero-point side
HistGapValue == IF HistZero > HistPeak THEN HistPeak + 1 ELSE HistPeak - 1

\* C18: in histogram encode, after the shift step and before any bit is
\* embedded, no pixel from index 32 on has a blue sample equal to the value
\* next to the peak on the zero-point side, for every input buffer; so after
\* the embedding every such pixel at that value was at the peak and carries
\* a 1 bit.
C18_HistGapOpened ==
    (technique = "histogram" /\ encState = "ok") =>
        \A p \in HistReserved..(NPix(orig) - 1) :
            /\ Blue(HistShifted, p) # HistGapValue
            /\ Blue(data, p) = HistGapValue => Blue(HistShifted, p) = HistPeak

\* the index in the buffer (from 1) of the k-th red, green or blue sample
\* (k from 0), alpha samples skipped
LsbSampleOfBit(k) == 4 * (k \div 3) + (k % 3) + 1

\* C19: after lsb encode of an n-bit message, the k-th red, green or blue
\* sample in buffer order has bit 0 equal to message bit k and bits 1..7 as
\* before, for every k < n; every other sample of the buffer (every alpha
\* sample, every colour sample at position n or later) has its original value.
C19_LsbFrameEffect ==
    (technique = "lsb" /\ encState = "ok") =>
        LET bits == MessageBits
            n == Len(bits)
        IN  /\ Len(data) = Len(orig)
            /\ \A k \in 0..(n - 1) :
                   /\ LsbSampleOfBit(k) <= Len(data)
                   /\ Bit(data[LsbSampleOfBit(k)], 0) = bits[k + 1]
                   /\ \A b \in 1..7 :
                          Bit(data[LsbSampleOfBit(k)], b) = Bit(orig[LsbSampleOfBit(k)], b)
            /\ \A s \in 1..Len(data) :
                   ((s - 1) % 4 = 3 \/ 3 * ((s - 1) \div 4) + ((s - 1) % 4) >= n)
                       => data[s] = orig[s]

\* an lsb encode that cleared bit 0 of one sample, set it in another, stopped
\* in the middle of a pixel and left colour samples after the message
C19_BitsSetAndCleared ==
    /\ technique = "lsb"
    /\ encState = "ok"
    /\ LET bits == MessageBits
           n == Len(bits)
       IN  /\ n % 3 # 0
           /\ 4 * n < 3 * Len(data)
           /\ \E k \in 0..(n - 1) :
                  orig[LsbSampleOfBit(k)] % 2 = 1 /\ data[LsbSampleOfBit(k)] % 2 = 0
           /\ \E k \in 0..(n - 1) :
                  orig[LsbSampleOfBit(k)] % 2 = 0 /\ data[LsbSampleOfBit(k)] % 2 = 1
           /\ \E k \in n..(n + 2) : orig[LsbSampleOfBit(k)] % 2 = 1

\* pixel p lies in the 8x8 patch of bit bitIndex: its column is one of the 8
\* from the patch origin and its row one of the 8; no pixel does when the
\* origin is not a number
InCurrentPatch(p, bitIndex) ==
    LET o == EncPatchOrigin(bitIndex, width, height)
    IN  /\ o[1] # NaN
        /\ o[2] # NaN
        /\ (p % width) - o[1] \in 0..(PatchSize - 1)
        /\ (p \div width) - o[2] \in 0..(PatchSize - 1)

\* what one step of patchwork encode may do to the buffer
PatchStepMovesByOne ==
    /\ Len(data') = Len(data)
    /\ \A k \in 1..Len(data) :
          /\ data'[k] \in 0..255
          /\ IF (k - 1) % 4 = 2 /\ InCurrentPatch((k - 1) \div 4, embedded)
             THEN data'[k] = (IF binary[embedded + 1] = 1
                              THEN (IF data[k] = 255 THEN 255 ELSE data[k] + 1)
                              ELSE (IF data[k] = 0 THEN 0 ELSE data[k] - 1))
             ELSE data'[k] = data[k]

\* C20: patchwork encode never wraps a sample: at every step each blue
\* sample inside the current patch moves by exactly +1 (bit 1) or -1 (bit 0)
\* unless it is already 255 or 0, and then it stays; all samples remain in
\* 0..255, and no red, green or alpha sample and no pixel outside the
\* current patch is changed.
C20_PatchworkStepsByOne == [][PatchStepMovesByOne]_vars

\* C21: patchwork decode always terminates (every step is an iteration of a
\* loop that has not returned and appends one bit to a string that never
\* exceeds the cap, and the loop returns at the cap), and the number n of
\* bits it returns is either the cap 10000 or the smallest multiple of 8
\* that is at least 40 for which the text of the first n bits contains the
\* terminator; it never emits a bit after the first such n.  The text of the
\* first m bits holds the terminator exactly when an occurrence at index i
\* ends within them, 8 * (i + 5) <= m.
C21_PatchDecodeTerminates ==
    /\ [](LET n == Len(binary)
              text == Force(binaryToText(binary))
              hits == TerminatorHits(text)
          IN  /\ n <= PatchMaxBits
              /\ decState = "none" => (n < PatchMaxBits /\ hits = {})
              /\ decState = "ok" =>
                    /\ n = PatchMaxBits \/ (n % 8 = 0 /\ n >= 40 /\ hits # {})
                    /\ \A i \in hits : 8 * (i + 5) >= n
                    /\ binary = extractPatchwork(data, width, height))
    /\ [][/\ decState = "none"
          /\ Len(binary') = Len(binary) + 1
          /\ SubSeq(binary', 1, Len(binary)) = binary]_vars

\* a patchwork decode that returned at its second check, after 48 bits
C21_StoppedAtSecondCheck ==
    /\ decTechnique = "patchwork"
    /\ decState = "ok"
    /\ Len(binary) = 48
    /\ TerminatorHits(binaryToText(SubSeq(binary, 1, 40))) = {}
    /\ TerminatorHits(binaryToText(binary)) = {1}

\* C22: dct encode changes no red, green or alpha sample and no sample of a
\* pixel lying in a trailing partial block (x >= 8 * floor(width / 8) or
\* y >= 8 * floor(height / 8)); block (0,0) receives only the signature and
\* the length field and never a payload bit: it is as the metadata turn
\* leaves it for a message of the same length and other bits, and the bits
\* embedded fit four to a block in the blocks after it.
C22_DctFrameEffect ==
    (technique = "dct" /\ encState = "ok") =>
        LET bits == MessageBits
            blocks == (width \div BlockSize) * (height \div BlockSize)
        IN  /\ Len(data) = Len(orig)
            /\ \A k \in 1..Len(data) :
                  LET p == (k - 1) \div 4
                  IN  ((k - 1) % 4 # DCTChannel
                          \/ p % width >= BlockSize * (width \div BlockSize)
                          \/ p \div width >= BlockSize * (height \div BlockSize))
                      => data[k] = orig[k]
            /\ embedded <= 4 * Max(0, blocks - 1)
            /\ blocks >= 1 =>
                  extractBlock(data, width, 0, 0, DCTChannel)
                      = extractBlock(DCTBlockStep(orig, [n \in 1..Len(bits) |-> 0], width, 0),
                                     width, 0, 0, DCTChannel)

\* a dct encode of an image with a trailing partial block in both
\* directions that changed blue samples of block (0,0) and of a payload block
C22_BlocksChangedBesidePartial ==
    /\ technique = "dct"
    /\ encState = "ok"
    /\ width % BlockSize # 0
    /\ height % BlockSize # 0
    /\ embedded > 0
    /\ extractBlock(data, width, 0, 0, DCTChannel) # extractBlock(orig, width, 0, 0, DCTChannel)
    /\ extractBlock(data, width, 8, 8, DCTChannel) # extractBlock(orig, width, 8, 8, DCTChannel)

\* C23: for width > 8 and height > 8 and every bit index i, all 64 pixels of
\* the 8x8 patch that patchwork encode and decode address for index i lie
\* inside the buffer: 0 <= patchX and patchX + 7 < width, 0 <= patchY and
\* patchY + 7 < height, so no sample index is out of range.
C23_PatchInsideBuffer ==
    (technique = "patchwork" /\ decTechnique = "patchwork" /\ EncodedThenDecoded
        /\ width > PatchSize /\ height > PatchSize) =>
        \A i \in 0..(PatchMaxBits - 1) :
            \A o \in {EncPatchOrigin(i, width, height), DecPatchOrigin(i, width, height)} :
                /\ 0 <= o[1]
                /\ o[1] + PatchSize - 1 < width
                /\ 0 <= o[2]
                /\ o[2] + PatchSize - 1 < height
                /\ ((o[2] + PatchSize - 1) * width + (o[1] + PatchSize - 1)) * 4 + 2 < Len(data)

\* encode and decode have both run on an image wider than 9 on which the
\* patch of a message bit lies as far right and as far down as a patch can
C23_PatchAtFarCorner ==
    /\ technique = "patchwork"
    /\ decTechnique = "patchwork"
    /\ EncodedThenDecoded
    /\ width > PatchSize + 1
    /\ height > PatchSize + 1
    /\ \E i \in 0..(Len(MessageBits) - 1) :
          /\ EncPatchOrigin(i, width, height) = <<width - PatchSize - 1, height - PatchSize - 1>>
          /\ DecPatchOrigin(i, width, height) = <<width - PatchSize - 1, height - PatchSize - 1>>

\* C24: in histogram encode, for every input buffer the chosen zero point
\* differs from the peak point and lies in 0..255, the shift direction is
\* left when the peak is 255 and right when the peak is 0, and therefore the
\* value written for a 1 bit (peak + 1 or peak - 1) is within 0..255.
C24_HistZeroPointInRange ==
    (technique = "histogram" /\ encState = "ok") =>
        LET peakPoint == HistPeak
            zeroPoint == HistZero
            written == IF zeroPoint > peakPoint THEN peakPoint + 1 ELSE peakPoint - 1
            shifted == HistShifted
        IN  /\ zeroPoint # peakPoint
            /\ zeroPoint \in 0..255
            /\ peakPoint \in 0..255
            /\ peakPoint = 255 => zeroPoint < peakPoint
            /\ peakPoint = 0 => zeroPoint > peakPoint
            /\ written \in 0..255
            /\ \A p \in HistReserved..(NPix(orig) - 1) :
                  Blue(shifted, p) = peakPoint => Blue(data, p) \in {peakPoint, written}

\* a histogram encode whose peak is 255: it shifted left and wrote 254 for a
\* 1 bit
C24_OneBitBelowPeak255 ==
    /\ technique = "histogram"
    /\ encState = "ok"
    /\ HistPeak = 255
    /\ HistZero < 254
    /\ embedded > 0
    /\ \E p \in HistReserved..(NPix(orig) - 1) :
          Blue(orig, p) = 255 /\ Blue(data, p) = 254

\* C25: in the decode tab, under every interleaving of image selection
\* (handleImageChange) with a pending decodeMessage call started by
\* handleDecode, a decoded message that is displayed was decoded from the
\* currently selected image: a decode result for a previously selected image
\* is never shown after a new image has been selected.
C25_ShownMessageOfSelectedImage ==
    decodedMessage # <<>> =>
        /\ image # 0
        /\ TabFiles[image].loads
        /\ decodedMessage = processDecoding(TabFileData(image), 5, 5, decTechnique).text

====
